---- MODULE Spec2Model ----
(***************************************************************************)
(* UniVerse API (src/main.py): the signup/login handlers and the generic   *)
(* list / create / delete handlers over a document store.                  *)
(*                                                                         *)
(* Modelling conventions                                                   *)
(*   - a stored document is a function from its keys (strings) to values;  *)
(*   - Python's Optional[T] is a sequence of length <= 1: None is <<>>,    *)
(*     a present value v is <<v>>;                                         *)
(*   - text that the regex filters search (title, description, location,   *)
(*     subject, the query terms) is a sequence of one-character strings;   *)
(*   - a datetime is an integer reading of the clock; its isoformat() is   *)
(*     the record [iso |-> t];                                             *)
(*   - an ObjectId is a positive integer; str(ObjectId) is the record      *)
(*     [hex |-> n, ok |-> TRUE]; a string that ObjectId() rejects has      *)
(*     ok = FALSE;                                                         *)
(*   - every handler runs on one of the worker threads; a handler that     *)
(*     talks to the store twice is two steps, and other workers may run    *)
(*     between them.                                                       *)
(***************************************************************************)
EXTENDS Integers, Sequences, FiniteSets, TLC

VARIABLES db, now, nextOid, uuids, pc, local, resp, created_log, deleted_log

vars == <<db, now, nextOid, uuids, pc, local, resp, created_log, deleted_log>>

(* db          the store: each collection's documents in insertion order      *)
(* now         the last reading of the clock                                  *)
(* nextOid     the next ObjectId the store assigns                            *)
(* uuids       how many tokens uuid4 has returned                             *)
(* pc, local   each worker's place in its handler and the handler's frame     *)
(* resp        the response on the wire, if any                               *)
(* created_log, deleted_log   history: the creates that returned a record     *)
(*             (endpoint, id, payload) and the deletes that succeeded         *)
(*             (endpoint, id)                                                 *)
(*                                                                            *)
(* list(E) is the handler function list_beacons .. list_market of endpoint E; *)
(* the generic list_items handler is left out.                                *)

(* ------------------------------ bounds -------------------------------- *)

\* ObjectIds the store hands out in one run.
MaxOid == 3
\* Largest reading of the clock.
MaxClock == 1

\* The worker threads that run handlers concurrently.
Workers == {"w1", "w2"}

(* ----------------------------- utilities ------------------------------ *)

None == <<>>
Some(v) == <<v>>

\* str(ObjectId(n)) and the strings ObjectId() accepts.
OidStr(n) == [hex |-> n, ok |-> TRUE]
BadIdStr == [hex |-> 0, ok |-> FALSE]

\* oid(id_str): the ObjectId, or None where the code raises HTTP 400.
oid(id_str) == IF id_str.ok THEN Some(id_str.hex) ELSE None

\* Keys whose values are datetime instances in the documents of this program.
DatetimeKeys == {"created_at", "updated_at", "start_time", "end_time", "expires_at"}

isoformat(t) == [iso |-> t]

\* serialize(doc) for a document that is not None.
serialize_doc(d) ==
  LET keys == (DOMAIN d \ {"_id"}) \cup (IF "_id" \in DOMAIN d THEN {"id"} ELSE {})
  IN  [k \in keys |->
         IF k = "id" /\ "_id" \in DOMAIN d THEN OidStr(d["_id"])
         ELSE IF k \in DatetimeKeys THEN isoformat(d[k])
         ELSE d[k]]

\* serialize(doc): None stays None.
serialize(doc) == IF doc = None THEN None ELSE Some(serialize_doc(doc[1]))

\* hashlib.sha256(password).hexdigest(): one digest per password.
hash_password(password) == [sha256 |-> password]

\* timedelta(days=7), in units of the model's clock.
SESSION_DAYS == 7

\* The registry with the user collection in it.
ALLOWED_COLLECTIONS_WithUser ==
  [e \in {"beacons", "resources", "tutors", "clubs", "events", "lostfound", "market",
          "user"} |->
     CASE e = "beacons"   -> "beacon"
       [] e = "resources" -> "resource"
       [] e = "tutors"    -> "tutor"
       [] e = "clubs"     -> "club"
       [] e = "events"    -> "event"
       [] e = "lostfound" -> "lostfound"
       [] e = "market"    -> "market"
       [] e = "user"      -> "user"]

ALLOWED_COLLECTIONS ==
  [e \in {"beacons", "resources", "tutors", "clubs", "events", "lostfound", "market"} |->
     CASE e = "beacons"   -> "beacon"
       [] e = "resources" -> "resource"
       [] e = "tutors"    -> "tutor"
       [] e = "clubs"     -> "club"
       [] e = "events"    -> "event"
       [] e = "lostfound" -> "lostfound"
       [] e = "market"    -> "market"]

\* Every collection of the database (src/schemas.py).
Collections ==
  {"user", "session", "beacon", "resource", "tutor", "club", "event", "lostfound", "market"}

(* ------------------------- the document store ------------------------- *)

\* Case-insensitive comparison of characters ($options: "i").
Lower(c) == CASE c = "A" -> "a" [] c = "B" -> "b" [] OTHER -> c

LowerStr(s) == [i \in DOMAIN s |-> Lower(s[i])]

\* {"$regex": p, "$options": "i"} against a string value: p occurs in s.
RegexSearch(p, s) ==
  \E i \in 1..(Len(s) + 1) :
     /\ i + Len(p) - 1 <= Len(s)
     /\ LowerStr(SubSeq(s, i, i + Len(p) - 1)) = LowerStr(p)

\* One field condition of a query document.
CondMatches(d, k, c) ==
  /\ k \in DOMAIN d
  /\ IF c.op = "regex" THEN RegexSearch(c.v, d[k]) ELSE d[k] = c.v

\* A query document without "$or": every field condition holds.
PlainMatches(d, f) == \A k \in DOMAIN f : CondMatches(d, k, f[k])

\* A query document: "$or" is a list of plain query documents.
Matches(d, f) ==
  \A k \in DOMAIN f :
     IF k = "$or" THEN \E i \in DOMAIN f[k] : PlainMatches(d, f[k][i])
     ELSE CondMatches(d, k, f[k])

Eq(v) == [op |-> "eq", v |-> v]
Regex(p) == [op |-> "regex", v |-> p]

\* collection.find(f), in the store's natural (insertion) order.
find(coll, f) == SelectSeq(db[coll], LAMBDA d : Matches(d, f))

\* collection.find_one(f): the first match, or None.
find_one(coll, f) ==
  LET r == find(coll, f) IN IF Len(r) = 0 THEN None ELSE Some(r[1])

\* collection.insert_one(doc): the store assigns the next ObjectId.
insert_one(coll, doc) ==
  [db EXCEPT ![coll] = Append(@, doc @@ ("_id" :> nextOid))]

\* collection.delete_one(f): the first match is removed.
delete_one(coll, f) ==
  LET s == db[coll]
      hit == {i \in DOMAIN s : Matches(s[i], f)}
  IN  IF hit = {} THEN db
      ELSE LET i == CHOOSE j \in hit : \A h \in hit : j <= h
           IN  [db EXCEPT ![coll] = SubSeq(s, 1, i - 1) \o SubSeq(s, i + 1, Len(s))]

deleted_count(coll, f) ==
  IF \E i \in DOMAIN db[coll] : Matches(db[coll][i], f) THEN 1 ELSE 0

\* Two readings of datetime.utcnow() taken one after the other by a handler.
ClockReads == {<<t1, t2>> \in (now..MaxClock) \X (now..MaxClock) : t1 <= t2}

(* ------------------------------ responses ----------------------------- *)

\* The response a handler has just sent: it is on the wire until Return takes
\* it off, and no handler steps while it is.
Respond(op, req, status, body) ==
  [op |-> op, req |-> req, status |-> status, body |-> body]

NoResp == [op |-> "none", req |-> None, status |-> 0, body |-> None]

Ready == resp.op = "none"

\* The response reaches the client.
Return ==
  /\ ~Ready
  /\ resp' = NoResp
  /\ UNCHANGED <<db, now, nextOid, uuids, pc, local, created_log, deleted_log>>

NoLocal == [op |-> "none"]

Init ==
  /\ db = [c \in Collections |-> <<>>]
  /\ now = 0
  /\ nextOid = 1
  /\ uuids = 0
  /\ pc = [w \in Workers |-> "idle"]
  /\ local = [w \in Workers |-> NoLocal]
  /\ resp = NoResp
  /\ created_log = {}
  /\ deleted_log = {}

\* ObjectIds already promised to handlers that have not inserted yet.
Pending == Cardinality({w \in Workers : pc[w] \in {"signup_insert", "login_insert"}})

CanAllocate == nextOid + Pending <= MaxOid

(* -------------------------------- signup ------------------------------ *)

\* signup with the existence check on student_id alone.
SignupFilter_IdOnly(payload) ==
  ("$or" :> << ("student_id" :> Eq(payload.student_id)) >>)

SignupFilter(payload) ==
  ("$or" :> << ("student_id" :> Eq(payload.student_id)),
               ("email" :> Eq(payload.email)) >>)

\* signup, up to the existence check.
SignupFind(w, payload) ==
  /\ Ready /\ pc[w] = "idle"
  /\ CanAllocate
  /\ LET existing == find_one("user", SignupFilter(payload))
     IN  IF existing # None
         THEN /\ resp' = Respond("signup", payload, 400, None)
              /\ UNCHANGED <<pc, local>>
         ELSE /\ pc' = [pc EXCEPT ![w] = "signup_insert"]
              /\ local' = [local EXCEPT ![w] = [op |-> "signup", payload |-> payload]]
              /\ UNCHANGED resp
  /\ UNCHANGED <<db, now, nextOid, uuids, created_log, deleted_log>>

\* signup, from the construction of user_doc to the response.
SignupInsert(w) ==
  /\ Ready /\ pc[w] = "signup_insert"
  /\ \E ts \in ClockReads :
       LET payload == local[w].payload
           user_doc == [student_id |-> payload.student_id,
                        name |-> payload.name,
                        email |-> payload.email,
                        password_hash |-> hash_password(payload.password),
                        avatar_url |-> None,
                        bio |-> None,
                        created_at |-> ts[1],
                        updated_at |-> ts[2]]
       IN  /\ db' = insert_one("user", user_doc)
           /\ now' = ts[2]
           /\ resp' = Respond("signup", payload, 200, Some(OidStr(nextOid)))
  /\ nextOid' = nextOid + 1
  /\ pc' = [pc EXCEPT ![w] = "idle"]
  /\ local' = [local EXCEPT ![w] = NoLocal]
  /\ UNCHANGED <<uuids, created_log, deleted_log>>

(* -------------------------------- login ------------------------------- *)

LoginFilter(payload) ==
  ("$or" :> << ("email" :> Eq(payload.identifier)),
               ("student_id" :> Eq(payload.identifier)) >>)

\* The test of line 161: the credentials are rejected.
LoginRejects(user, payload) ==
  \/ user = None
  \/ user[1]["password_hash"] # hash_password(payload.password)

\* login, up to the credential check.
LoginFind(w, payload) ==
  /\ Ready /\ pc[w] = "idle"
  /\ CanAllocate
  /\ LET user == find_one("user", LoginFilter(payload))
     IN  IF LoginRejects(user, payload)
         THEN /\ resp' = Respond("login", payload, 401, None)
              /\ UNCHANGED <<pc, local>>
         ELSE /\ pc' = [pc EXCEPT ![w] = "login_insert"]
              /\ local' = [local EXCEPT ![w] =
                             [op |-> "login", payload |-> payload, user |-> user[1]]]
              /\ UNCHANGED resp
  /\ UNCHANGED <<db, now, nextOid, uuids, created_log, deleted_log>>

\* str(uuid4()): a token no earlier call returned.
uuid4 == [uuid |-> uuids + 1]

\* login, from the token to the response.
LoginInsert(w) ==
  /\ Ready /\ pc[w] = "login_insert"
  /\ \E ts \in ClockReads :
       LET user == local[w].user
           token == uuid4
           session_doc == [user_id |-> OidStr(user["_id"]),
                           token |-> token,
                           created_at |-> ts[1],
                           expires_at |-> ts[2] + SESSION_DAYS]
       IN  /\ db' = insert_one("session", session_doc)
           /\ now' = ts[2]
           /\ resp' = Respond("login", local[w].payload, 200,
                              Some([token |-> token, user |-> serialize_doc(user)]))
  /\ nextOid' = nextOid + 1
  /\ uuids' = uuids + 1
  /\ pc' = [pc EXCEPT ![w] = "idle"]
  /\ local' = [local EXCEPT ![w] = NoLocal]
  /\ UNCHANGED <<created_log, deleted_log>>

(* ------------------------- inputs of the auth runs -------------------- *)

\* A student_id is any string; "x@u" is one that is shaped like an email.
StudentIds == {"s1", "x@u"}
Emails == {"x@u", "y@u"}
Passwords == {"p", "q"}

SignupRequests ==
  [student_id : StudentIds, name : {"n"}, email : Emails, password : Passwords]

LoginRequests == [identifier : StudentIds \cup Emails \cup {"zz"}, password : Passwords]

NextAuth ==
  \/ \E w \in Workers, payload \in SignupRequests : SignupFind(w, payload)
  \/ \E w \in Workers : SignupInsert(w)
  \/ \E w \in Workers, payload \in LoginRequests : LoginFind(w, payload)
  \/ \E w \in Workers : LoginInsert(w)
  \/ Return

SpecAuth == Init /\ [][NextAuth]_vars

\* One handler at a time: requests arrive one after the other.
Alone(w) == \A v \in Workers \ {w} : pc[v] = "idle"

NextAuthSeq ==
  \/ \E w \in Workers, payload \in SignupRequests : Alone(w) /\ SignupFind(w, payload)
  \/ \E w \in Workers : Alone(w) /\ SignupInsert(w)
  \/ \E w \in Workers, payload \in LoginRequests : Alone(w) /\ LoginFind(w, payload)
  \/ \E w \in Workers : Alone(w) /\ LoginInsert(w)
  \/ Return

SpecAuthSeq == Init /\ [][NextAuthSeq]_vars

(* ------------------------------ filters ------------------------------- *)

\* Python truthiness of an Optional[str]: None and "" are falsy.
Truthy(x) == x # None /\ Len(x[1]) > 0

\* build_filter with the arguments tested against None instead of for truth.
build_filter_NotNone(q, location, subject) ==
  LET keys == (IF q # None THEN {"$or"} ELSE {})
                \cup (IF location # None THEN {"location"} ELSE {})
                \cup (IF subject # None THEN {"subject"} ELSE {})
  IN  [k \in keys |->
         IF k = "$or" THEN << ("title" :> Regex(q[1])), ("description" :> Regex(q[1])) >>
         ELSE IF k = "location" THEN Regex(location[1])
         ELSE Regex(subject[1])]

build_filter(q, location, subject) ==
  LET keys == (IF Truthy(q) THEN {"$or"} ELSE {})
                \cup (IF Truthy(location) THEN {"location"} ELSE {})
                \cup (IF Truthy(subject) THEN {"subject"} ELSE {})
  IN  [k \in keys |->
         IF k = "$or" THEN << ("title" :> Regex(q[1])), ("description" :> Regex(q[1])) >>
         ELSE IF k = "location" THEN Regex(location[1])
         ELSE Regex(subject[1])]

(* -------------------------------- list -------------------------------- *)

\* The list handlers, were the events' sorted like the others.
ListRoutes_AllNewestFirst ==
  [e \in DOMAIN ALLOWED_COLLECTIONS |->
     [coll    |-> ALLOWED_COLLECTIONS[e],
      subject |-> e \in {"beacons", "resources", "tutors", "lostfound"},
      key     |-> "created_at",
      dir     |-> -1]]

\* The seven list handlers: the collection each reads, whether it passes its
\* subject argument to build_filter, and its sort.
ListRoutes ==
  [e \in DOMAIN ALLOWED_COLLECTIONS |->
     [coll    |-> ALLOWED_COLLECTIONS[e],
      subject |-> e \in {"beacons", "resources", "tutors", "lostfound"},
      key     |-> IF e = "events" THEN "start_time" ELSE "created_at",
      dir     |-> IF e = "events" THEN 1 ELSE -1]]

\* The store's order of two documents under a sort key: a missing field is
\* null and sorts before every value.
KeyLeq(d1, d2, key) == key \notin DOMAIN d1 \/ (key \in DOMAIN d2 /\ d1[key] <= d2[key])

InOrder(s, key, dir) ==
  \A i, j \in DOMAIN s :
     i < j => IF dir = 1 THEN KeyLeq(s[i], s[j], key) ELSE KeyLeq(s[j], s[i], key)

Perms(n) == {p \in [1..n -> 1..n] : \A i, j \in 1..n : p[i] = p[j] => i = j}

\* cursor.sort(key, dir): every order of the documents the store may return
\* (documents with equal keys come in no promised order).
sort(s, key, dir) ==
  {t \in {[i \in DOMAIN s |-> s[p[i]]] : p \in Perms(Len(s))} : InOrder(t, key, dir)}

\* The documents a list handler returns, before serialisation.
ListResults(endpoint, q, location, subject) ==
  LET r == ListRoutes[endpoint]
      filt == build_filter(q, location, IF r.subject THEN subject ELSE None)
  IN  sort(find(r.coll, filt), r.key, r.dir)

\* list_beacons .. list_market.
ListItems(w, endpoint, q, location, subject) ==
  /\ Ready /\ pc[w] = "idle"
  /\ \E items \in ListResults(endpoint, q, location, subject) :
       resp' = Respond("list",
                       [endpoint |-> endpoint, q |-> q, location |-> location,
                        subject |-> subject],
                       200,
                       [i \in DOMAIN items |-> serialize_doc(items[i])])
  /\ UNCHANGED <<db, now, nextOid, uuids, pc, local, created_log, deleted_log>>

(* ------------------------------- create ------------------------------- *)

\* The fields of CreateItemRequest.
PayloadFields ==
  {"title", "description", "owner_id", "owner_name", "location", "subject", "price",
   "condition", "url", "tags", "start_time", "end_time", "rate_per_hour",
   "availability", "status"}

\* The stored document with the null fields of the payload kept as nulls.
NonNull_KeepNulls(payload) ==
  [k \in DOMAIN payload |-> IF payload[k] = None THEN None ELSE payload[k][1]]

\* {k: v for k, v in payload.model_dump().items() if v is not None}
NonNull(payload) == [k \in {x \in DOMAIN payload : payload[x] # None} |-> payload[k][1]]

\* create_item, up to insert_one.
CreateInsert(w, endpoint, payload) ==
  /\ Ready /\ pc[w] = "idle"
  /\ IF endpoint \notin DOMAIN ALLOWED_COLLECTIONS
     THEN /\ resp' = Respond("create", [endpoint |-> endpoint, payload |-> payload],
                             404, None)
          /\ UNCHANGED <<db, now, nextOid, pc, local>>
     ELSE /\ \E ts \in ClockReads :
               LET doc == NonNull(payload)
                            @@ ("created_at" :> ts[1]) @@ ("updated_at" :> ts[2])
               IN  /\ db' = insert_one(ALLOWED_COLLECTIONS[endpoint], doc)
                   /\ now' = ts[2]
          /\ nextOid' = nextOid + 1
          /\ pc' = [pc EXCEPT ![w] = "create_reread"]
          /\ local' = [local EXCEPT ![w] =
                         [op |-> "create", endpoint |-> endpoint, payload |-> payload,
                          inserted_id |-> nextOid]]
          /\ UNCHANGED resp
  /\ UNCHANGED <<uuids, created_log, deleted_log>>

\* create_item, from the re-read to the response. A handler that returns None
\* is answered 200 with the body null.
CreateReread(w) ==
  /\ Ready /\ pc[w] = "create_reread"
  /\ LET l == local[w]
         found == find_one(ALLOWED_COLLECTIONS[l.endpoint], ("_id" :> Eq(l.inserted_id)))
         body == serialize(found)
     IN  /\ resp' = Respond("create", [endpoint |-> l.endpoint, payload |-> l.payload],
                            200, body)
         /\ created_log' =
              IF body = None THEN created_log
              ELSE created_log \cup
                     {[endpoint |-> l.endpoint, id |-> body[1]["id"], payload |-> l.payload]}
  /\ pc' = [pc EXCEPT ![w] = "idle"]
  /\ local' = [local EXCEPT ![w] = NoLocal]
  /\ UNCHANGED <<db, now, nextOid, uuids, deleted_log>>

(* ------------------------------- delete ------------------------------- *)

\* delete_item answering success whatever was deleted.
DeleteStatus_AlwaysOk(count) == 200

\* The status delete_item answers with, from res.deleted_count.
DeleteStatus(count) == IF count = 0 THEN 404 ELSE 200

\* delete_item.
DeleteItem(w, endpoint, item_id) ==
  /\ Ready /\ pc[w] = "idle"
  /\ LET req == [endpoint |-> endpoint, item_id |-> item_id]
     IN  IF endpoint \notin DOMAIN ALLOWED_COLLECTIONS
         THEN /\ resp' = Respond("delete", req, 404, None)
              /\ UNCHANGED <<db, deleted_log>>
         ELSE IF oid(item_id) = None
         THEN /\ resp' = Respond("delete", req, 400, None)
              /\ UNCHANGED <<db, deleted_log>>
         ELSE LET f == ("_id" :> Eq(oid(item_id)[1]))
                  coll == ALLOWED_COLLECTIONS[endpoint]
                  status == DeleteStatus(deleted_count(coll, f))
              IN  /\ db' = delete_one(coll, f)
                  /\ IF status = 404
                     THEN /\ resp' = Respond("delete", req, 404, None)
                          /\ UNCHANGED deleted_log
                     ELSE /\ resp' = Respond("delete", req, 200, Some([success |-> TRUE]))
                          /\ deleted_log' = deleted_log \cup {<<endpoint, item_id>>}
  /\ UNCHANGED <<now, nextOid, uuids, pc, local, created_log>>

(* ------------------------- inputs of the CRUD runs -------------------- *)

\* Content items the store holds in one run.
MaxItems == 2

Payload(f) == [k \in PayloadFields |-> IF k \in DOMAIN f THEN Some(f[k]) ELSE None]

Payloads ==
  { Payload(("title" :> <<"a">>)),
    Payload(("title" :> <<"A", "b">>) @@ ("location" :> <<"b">>) @@ ("start_time" :> 1)),
    Payload(("title" :> <<"b">>) @@ ("description" :> <<"a">>) @@ ("location" :> <<>>)
              @@ ("subject" :> <<"B">>) @@ ("start_time" :> 0) @@ ("price" :> 10)) }

ItemIds == {OidStr(n) : n \in 1..MaxItems} \cup {BadIdStr}

\* (q, location, subject) of list requests.
ListArgs ==
  { <<None, None, None>>, <<Some(<<"a">>), None, None>>, <<None, Some(<<"B">>), None>>,
    <<None, None, Some(<<"b">>)>>, <<None, Some(<<>>), None>> }

\* Three endpoints of the registry and two names outside it.
CrudNames == {"beacons", "events", "market", "user", "session"}

\* Every payload and list argument on CrudNames, in runs short enough for the
\* clock to stand still.
NextCrud ==
  \/ \E w \in Workers, endpoint \in CrudNames, payload \in Payloads :
        nextOid <= MaxItems /\ CreateInsert(w, endpoint, payload) /\ now' = now
  \/ \E w \in Workers : CreateReread(w)
  \/ \E w \in Workers, endpoint \in CrudNames, item_id \in ItemIds :
        DeleteItem(w, endpoint, item_id)
  \/ \E w \in Workers, endpoint \in CrudNames \cap DOMAIN ListRoutes, a \in ListArgs :
        ListItems(w, endpoint, a[1], a[2], a[3])
  \/ Return

SpecCrud == Init /\ [][NextCrud]_vars

\* No collection but those of the endpoints eps holds a content item.
OnlyIn(eps) ==
  \A e \in DOMAIN ALLOWED_COLLECTIONS \ eps : db[ALLOWED_COLLECTIONS[e]] = <<>>

\* Every list handler, over items that differ in start_time and created_at;
\* the items of a run are in one collection, and none is deleted.
NextList ==
  \/ \E w \in Workers, endpoint \in DOMAIN ALLOWED_COLLECTIONS :
        \E payload \in {pl \in Payloads : pl["start_time"] # None} :
           /\ OnlyIn({endpoint})
           /\ nextOid <= MaxItems
           /\ CreateInsert(w, endpoint, payload)
  \/ \E w \in Workers : CreateReread(w)
  \/ \E w \in Workers, endpoint \in DOMAIN ListRoutes :
        \E a \in {<<None, None, None>>, <<Some(<<"a">>), None, None>>,
                  <<None, Some(<<"B">>), None>>} :
           ListItems(w, endpoint, a[1], a[2], a[3])
  \/ Return

SpecList == Init /\ [][NextList]_vars

\* The other four endpoints of the registry and two names outside it.
OtherNames == {"resources", "tutors", "clubs", "lostfound", "user", "session"}

\* One payload and unfiltered lists on OtherNames, beside signups that fill the
\* user collection, in runs short enough for the clock to stand still.
NextNames ==
  \/ \E w \in Workers, endpoint \in OtherNames :
        /\ nextOid <= MaxItems
        /\ CreateInsert(w, endpoint, Payload(("title" :> <<"a">>)))
        /\ now' = now
  \/ \E w \in Workers : CreateReread(w)
  \/ \E w \in Workers, endpoint \in OtherNames, item_id \in ItemIds :
        DeleteItem(w, endpoint, item_id)
  \/ \E w \in Workers, endpoint \in OtherNames \cap DOMAIN ListRoutes :
        ListItems(w, endpoint, None, None, None)
  \/ \E w \in Workers :
        SignupFind(w, [student_id |-> "s1", name |-> "n", email |-> "x@u", password |-> "p"])
  \/ \E w \in Workers : SignupInsert(w) /\ now' = now
  \/ Return

SpecNames == Init /\ [][NextNames]_vars

(* ------------------------ build_filter on its own --------------------- *)

Terms == {None, Some(<<>>), Some(<<"a">>), Some(<<"A", "b">>)}

\* filt = build_filter(q, location, subject), the first statement of a list
\* handler, with the result kept in the handler's frame.
EvalFilter(w, q, location, subject) ==
  /\ Ready /\ pc[w] = "idle"
  /\ local' = [local EXCEPT ![w] =
                 [op |-> "filter", q |-> q, location |-> location, subject |-> subject,
                  filt |-> build_filter(q, location, subject)]]
  /\ UNCHANGED <<db, now, nextOid, uuids, pc, resp, created_log, deleted_log>>

NextFilter ==
  \E w \in Workers, q \in Terms, location \in Terms, subject \in Terms :
     EvalFilter(w, q, location, subject)

SpecFilter == Init /\ [][NextFilter]_vars

(* ======================= properties of signup / login ================= *)

Users == db["user"]
UserSet == {Users[i] : i \in DOMAIN Users}
Sessions == db["session"]

\* A response was sent in this step.
Responded(op) == Ready /\ resp'.op = op

\* C1: in every reachable state the user collection holds at most one User
\* per student_id and at most one User per email.
C1_UniqueUsers ==
  \A i, j \in DOMAIN Users :
     i # j => /\ Users[i]["student_id"] # Users[j]["student_id"]
              /\ Users[i]["email"] # Users[j]["email"]

\* Some stored User has the request's student_id or the request's email.
Taken(payload) ==
  \E u \in UserSet : u["student_id"] = payload.student_id \/ u["email"] = payload.email

\* C2: a signup whose student_id or email is that of a User stored when the
\* handler looks is answered 400 and leaves the user collection unchanged; a
\* signup that matches no stored User is answered 200 and adds exactly one User,
\* the one of the request.
C2_SignupConflict ==
  [][ /\ \A w \in Workers :
            (pc[w] = "idle" /\ pc'[w] = "signup_insert")
               => ~Taken(local'[w].payload) /\ db' = db
      /\ (Responded("signup") /\ resp'.status = 400)
            => Taken(resp'.req) /\ db' = db
      /\ \A w \in Workers :
            (pc[w] = "signup_insert" /\ pc'[w] = "idle")
               => /\ Responded("signup") /\ resp'.status = 200
                  /\ Len(db'["user"]) = Len(Users) + 1
                  /\ SubSeq(db'["user"], 1, Len(Users)) = Users
                  /\ LET u == db'["user"][Len(Users) + 1]
                     IN  /\ u["student_id"] = local[w].payload.student_id
                         /\ u["email"] = local[w].payload.email
                         /\ resp'.body = Some(OidStr(u["_id"]))
                  /\ \A c \in Collections \ {"user"} : db'[c] = db[c]
      /\ (Responded("signup") /\ resp'.status \notin {200, 400}) => FALSE
    ]_vars

\* C2 witness: a signup reusing a stored student_id with a fresh email was
\* answered 400 (and one reusing a stored email with a fresh student_id could be).
C2_Witness ==
  /\ resp.op = "signup" /\ resp.status = 400
  /\ \E u \in UserSet : u["student_id"] = resp.req.student_id
  /\ \A u \in UserSet : u["email"] # resp.req.email

\* The identifier is the user's email or the user's student_id.
IdentifiedBy(u, identifier) == u["email"] = identifier \/ u["student_id"] = identifier

\* A stored User that the identifier names and whose stored hash is that of the password.
Holders(payload) ==
  {u \in UserSet : /\ IdentifiedBy(u, payload.identifier)
                   /\ u["password_hash"] = hash_password(payload.password)}

\* C3: for every stored User u, login with u's email or u's student_id and u's
\* password succeeds and returns u's record; login with an identifier that
\* names no user, or with a password whose hash is not the stored one, is
\* answered 401.
C3_LoginClaim ==
  [][ /\ \A w \in Workers :
            (pc[w] = "idle" /\ pc'[w] = "login_insert")
               => local'[w].user \in Holders(local'[w].payload)
      /\ (Responded("login") /\ resp'.status = 401)
            => Holders(resp'.req) = {}
      /\ \A w \in Workers :
            (pc[w] = "login_insert" /\ pc'[w] = "idle")
               => /\ Responded("login") /\ resp'.status = 200
                  /\ resp'.body[1].user = serialize_doc(local[w].user)
    ]_vars

\* C10: a successful login inserts exactly one Session whose user_id is the id
\* of the matched User, whose token is the one returned and is new, and whose
\* expires_at is its created_at plus 7 days; a login answered 401 inserts none.
C10_SessionClaim ==
  [][ Responded("login") =>
        IF resp'.status = 200
        THEN /\ Len(db'["session"]) = Len(Sessions) + 1
             /\ SubSeq(db'["session"], 1, Len(Sessions)) = Sessions
             /\ LET s == db'["session"][Len(Sessions) + 1]
                IN  /\ s["user_id"] = resp'.body[1].user["id"]
                    /\ s["token"] = resp'.body[1].token
                    /\ \A i \in DOMAIN Sessions : Sessions[i]["token"] # s["token"]
                    /\ s["expires_at"] = s["created_at"] + SESSION_DAYS
        ELSE db'["session"] = Sessions
    ]_vars

(* ===================== properties of list / create / delete =========== *)

\* C4: once delete(E, id) has succeeded, no list(E) returns a record with that
\* id, whatever its filters and whatever was created or deleted since, and a
\* further delete(E, id) is answered 404 and leaves the store unchanged.
C4_DeletedStaysDeleted ==
  [][ \A x \in deleted_log :
        /\ (Responded("list") /\ resp'.req.endpoint = x[1])
              => \A i \in DOMAIN resp'.body : resp'.body[i]["id"] # x[2]
        /\ (Responded("delete") /\ resp'.req = [endpoint |-> x[1], item_id |-> x[2]])
              => resp'.status = 404 /\ db' = db
    ]_vars

\* C4 witness: a second delete of a deleted item was answered 404.
C4_Witness ==
  /\ resp.op = "delete" /\ resp.status = 404
  /\ <<resp.req.endpoint, resp.req.item_id>> \in deleted_log

\* The wire form of a payload value.
Wire(k, v) == IF k \in DatetimeKeys THEN isoformat(v) ELSE v

\* The listed record r carries the payload: its non-null fields (timestamps
\* in their ISO form), no key for a null field, and both stamps.
Carries(r, payload) ==
  /\ \A k \in PayloadFields :
        IF payload[k] = None THEN k \notin DOMAIN r
        ELSE k \in DOMAIN r /\ r[k] = Wire(k, payload[k][1])
  /\ {"created_at", "updated_at"} \subseteq DOMAIN r

Unfiltered(req) == req.q = None /\ req.location = None /\ req.subject = None

C6_NoNullSuccess ==
  (resp.op = "create" /\ resp.status = 200) => resp.body # None

Others(endpoint) ==
  IF endpoint \in DOMAIN ALLOWED_COLLECTIONS
  THEN Collections \ {ALLOWED_COLLECTIONS[endpoint]}
  ELSE Collections

\* The wire records of a collection.
WireRecords(coll) == {serialize_doc(db[coll][i]) : i \in DOMAIN db[coll]}

\* C9: list, create and delete through endpoint E read and change only the
\* collection the registry maps E to; a create or delete with a name outside
\* the registry is answered 404 and changes no collection; the user and
\* session collections are never changed by these requests.
C9_Isolation ==
  [][ /\ \A w \in Workers :
            (pc[w] = "idle" /\ pc'[w] = "create_reread")
               => /\ local'[w].endpoint \in {"beacons", "resources", "tutors", "clubs",
                                             "events", "lostfound", "market"}
                  /\ \A c \in Others(local'[w].endpoint) : db'[c] = db[c]
      /\ Responded("create")
            => /\ db' = db
               /\ resp'.req.endpoint \in {"user", "session"} => resp'.status = 404
               /\ (resp'.status = 200 /\ resp'.body # None)
                     => resp'.body[1] \in WireRecords(ALLOWED_COLLECTIONS[resp'.req.endpoint])
      /\ Responded("delete")
            => /\ \A c \in Others(resp'.req.endpoint) : db'[c] = db[c]
               /\ resp'.req.endpoint \in {"user", "session"} => resp'.status = 404
      /\ Responded("list")
            => /\ db' = db
               /\ \A i \in DOMAIN resp'.body :
                     resp'.body[i] \in WireRecords(ALLOWED_COLLECTIONS[resp'.req.endpoint])
      /\ (\/ \E w \in Workers : pc[w] = "idle" /\ pc'[w] = "create_reread"
          \/ Responded("create") \/ Responded("delete") \/ Responded("list"))
            => db'["user"] = db["user"] /\ db'["session"] = db["session"]
    ]_vars

\* C9 witness: a delete through the name "user" of the id of a stored User
\* was answered 404.
C9_Witness ==
  /\ resp.op = "delete" /\ resp.req.endpoint = "user" /\ resp.status = 404
  /\ \E i \in DOMAIN db["user"] : OidStr(db["user"][i]["_id"]) = resp.req.item_id

(* ======================== properties of build_filter ================== *)

Frames == {local[w] : w \in {v \in Workers : local[v].op = "filter"}}

\* A few stored documents to try the filters on.
SampleDocs == {NonNull(pl) @@ ("created_at" :> 0) @@ ("updated_at" :> 0) : pl \in Payloads}

\* C7 as claimed: an argument that is not None, the empty string included,
\* puts its constraint in the filter; None puts none; with all three None the
\* filter matches every record.
C7_EmptyIsPresent ==
  \A l \in Frames :
     /\ ("$or" \in DOMAIN l.filt) <=> (l.q # None)
     /\ ("location" \in DOMAIN l.filt) <=> (l.location # None)
     /\ ("subject" \in DOMAIN l.filt) <=> (l.subject # None)
     /\ (l.q = None /\ l.location = None /\ l.subject = None)
           => \A d \in SampleDocs : Matches(d, l.filt)

NonEmpty(x) == x # None /\ x[1] # <<>>

\* C7 amended: an argument that is None or the empty string puts no
\* constraint in the filter; a non-empty argument puts its own (title or
\* description, location, subject); with no non-empty argument the filter
\* matches every record.
C7_EmptyIsAbsent ==
  \A l \in Frames :
     /\ ("$or" \in DOMAIN l.filt) <=> NonEmpty(l.q)
     /\ ("location" \in DOMAIN l.filt) <=> NonEmpty(l.location)
     /\ ("subject" \in DOMAIN l.filt) <=> NonEmpty(l.subject)
     /\ NonEmpty(l.q)
           => l.filt["$or"] = << ("title" :> Regex(l.q[1])), ("description" :> Regex(l.q[1])) >>
     /\ NonEmpty(l.location) => l.filt["location"] = Regex(l.location[1])
     /\ NonEmpty(l.subject) => l.filt["subject"] = Regex(l.subject[1])
     /\ (~NonEmpty(l.q) /\ ~NonEmpty(l.location) /\ ~NonEmpty(l.subject))
           => \A d \in SampleDocs : Matches(d, l.filt)

\* C7 witness: a filter built from an empty location and a non-empty q.
C7_Witness ==
  \E l \in Frames :
     /\ l.location = Some(<<>>) /\ l.q = Some(<<"a">>) /\ l.subject = None
     /\ DOMAIN l.filt = {"$or"}

====
